---- MODULE Spec2Model ----
(***************************************************************************)
(* Model of the invoice extractor (src/app.py): the three customer         *)
(* extractors with their regular expressions, the per-file processing      *)
(* loop, the numeric cleaning / currency conversion / display formatting   *)
(* of the result table, the column-name normalisation and the export       *)
(* preparation.                                                            *)
(*                                                                         *)
(* Texts, captured fields, monetary strings and column names are strings   *)
(* handled character by character.  Numbers (floats in the program) are    *)
(* exact decimals m / 10^d.                                                *)
(***************************************************************************)
EXTENDS Integers, Sequences, FiniteSets, TLC

VARIABLES
    customer_type,    \* sidebar selectbox
    uploaded_files,   \* sidebar file uploader: sequence of files
    ex_rate,          \* sidebar number input, a number cell
    normalize_names,  \* sidebar checkbox
    show_logs,        \* sidebar checkbox
    pc,               \* position of the script run started by "Process Files"
    idx,              \* number of files the loop has gone through
    results,          \* the growing list of extracted rows
    logs,             \* the per-file log entries
    calls,            \* how many times an extractor was called in this run
    text_reads,       \* how many times a file's text was extracted in this run
    pdf_errors,       \* how many "Error reading PDF" messages were shown
    message,          \* the status / validation message on the page
    notice,           \* what the page shows in place of a table
    shown_logs,       \* the log lines written to the page
    df,               \* the table shown on the page
    df_export,        \* the table behind the two download buttons
    downloads,        \* whether the download buttons are offered
    in_truth,         \* extractor harness: the layout the input text was built from
    in_text,          \* extractor harness: the input text
    out_rows,         \* extractor harness: the rows returned
    xpc               \* extractor harness: "off", "ready" or "done"

vars == <<customer_type, uploaded_files, ex_rate, normalize_names, show_logs,
          pc, idx, results, logs, calls, text_reads, pdf_errors, message, notice,
          shown_logs, df, df_export, downloads,
          in_truth, in_text, out_rows, xpc>>

widgetVars == <<customer_type, uploaded_files, ex_rate, normalize_names, show_logs>>
runVars == <<pc, idx, results, logs, calls, text_reads, pdf_errors, message, notice,
             shown_logs, df, df_export, downloads>>
harnessVars == <<in_truth, in_text, out_rows, xpc>>

-----------------------------------------------------------------------------
(* Characters and strings *)

Char(s, i) == SubSeq(s, i, i)

UpperStr == "ABCDEFGHIJKLMNOPQRSTUVWXYZ"
LowerStr == "abcdefghijklmnopqrstuvwxyz"
DigitStr == "0123456789"

CharsOf(s) == {Char(s, i) : i \in 1..Len(s)}

Upper == CharsOf(UpperStr)
Lower == CharsOf(LowerStr)
Letter == Upper \cup Lower
Digit == CharsOf(DigitStr)
Space == {" ", "\t", "\n", "\r", "\f"}

IndexIn(s, c) == CHOOSE i \in 1..Len(s) : Char(s, i) = c

ToLower(c) == IF c \in Upper THEN Char(LowerStr, IndexIn(UpperStr, c)) ELSE c
ToUpper(c) == IF c \in Lower THEN Char(UpperStr, IndexIn(LowerStr, c)) ELSE c

RECURSIVE MapChars(_, _)
MapChars(s, i) ==
    IF i > Len(s) THEN "" ELSE ToLower(Char(s, i)) \o MapChars(s, i + 1)

LowerCase(s) == MapChars(s, 1)

RECURSIVE LStrip(_)
LStrip(s) == IF Len(s) > 0 /\ Head(s) \in Space THEN LStrip(Tail(s)) ELSE s

RECURSIVE RStrip(_)
RStrip(s) ==
    IF Len(s) > 0 /\ Char(s, Len(s)) \in Space
    THEN RStrip(SubSeq(s, 1, Len(s) - 1)) ELSE s

Strip(s) == RStrip(LStrip(s))

RECURSIVE Remove(_, _)
Remove(s, c) ==
    IF Len(s) = 0 THEN ""
    ELSE IF Head(s) = c THEN Remove(Tail(s), c)
    ELSE Head(s) \o Remove(Tail(s), c)

RECURSIVE ReplaceChar(_, _, _)
ReplaceChar(s, c, d) ==
    IF Len(s) = 0 THEN ""
    ELSE (IF Head(s) = c THEN d ELSE Head(s)) \o ReplaceChar(Tail(s), c, d)

RECURSIVE Contains(_, _)
Contains(s, sub) ==
    IF Len(s) < Len(sub) THEN FALSE
    ELSE IF SubSeq(s, 1, Len(sub)) = sub THEN TRUE
    ELSE Contains(Tail(s), sub)

-----------------------------------------------------------------------------
(* Regular expressions: a pattern is a sequence of elements.  A "cls"      *)
(* element is a quantified character class, a "word" element a literal     *)
(* word, an "alt" element a non-capturing group of ordered alternatives    *)
(* (an optional group has the empty pattern as its last alternative).      *)
(* grp is the capture group the element lies in (0: none); max = -1 stands *)
(* for no upper limit.                                                     *)

Cls(cs, any, min, max, lazy, grp) ==
    [t |-> "cls", cs |-> cs, any |-> any, min |-> min, max |-> max,
     lazy |-> lazy, grp |-> grp, w |-> "", alts |-> <<>>]

Alt(alts) ==
    [t |-> "alt", cs |-> {}, any |-> FALSE, min |-> 1, max |-> 1,
     lazy |-> FALSE, grp |-> 0, w |-> "", alts |-> alts]

\* a literal word under re.IGNORECASE
Word(s) ==
    [t |-> "word", cs |-> {}, any |-> FALSE, min |-> 1, max |-> 1,
     lazy |-> FALSE, grp |-> 0, w |-> LowerCase(s), alts |-> <<>>]

\* a literal character that has no case
Lit(c) == Cls({c}, FALSE, 1, 1, FALSE, 0)
Opt(cs) == Cls(cs, FALSE, 0, 1, FALSE, 0)
Star(cs) == Cls(cs, FALSE, 0, -1, FALSE, 0)
Plus(cs) == Cls(cs, FALSE, 1, -1, FALSE, 0)
PlusG(cs, g) == Cls(cs, FALSE, 1, -1, FALSE, g)
RepG(cs, m, n, g) == Cls(cs, FALSE, m, n, FALSE, g)
LitG(c, g) == Cls({c}, FALSE, 1, 1, FALSE, g)
\* ".*?" under re.DOTALL
LazyAny == Cls({}, TRUE, 0, -1, TRUE, 0)

InClass(c, e) == e.any \/ c \in e.cs

MinOf(S) == CHOOSE x \in S : \A y \in S : x <= y
MaxOf(S) == CHOOSE x \in S : \A y \in S : x >= y

\* the number of characters from pos on that lie in e's class, at most e.max
Run(text, pos, e) ==
    LET cap == IF e.max >= 0 /\ pos + e.max - 1 < Len(text)
               THEN e.max ELSE Len(text) - pos + 1
    IN  IF e.any THEN cap
        ELSE CHOOSE n \in 0..cap :
                /\ n = cap \/ ~InClass(Char(text, pos + n), e)
                /\ \A i \in 0..n - 1 : InClass(Char(text, pos + i), e)

WordAt(text, pos, w) ==
    /\ pos + Len(w) - 1 <= Len(text)
    /\ LowerCase(SubSeq(text, pos, pos + Len(w) - 1)) = w

\* the repetition counts of element e at pos after which the rest of the
\* pattern can match, next being the positions from which the rest matches
Counts(text, e, pos, next) ==
    {n \in e.min..Run(text, pos, e) : pos + n \in next}

\* CanTab(text, p, i, j, cont)[k]: the positions from which the elements
\* i+k-1..j of p, followed by something that matches from the positions
\* cont, can match.  The table is built from its two halves, the right one
\* first.
RECURSIVE CanTab(_, _, _, _, _)
RECURSIVE CanAlts(_, _, _, _)

\* the same set, its elements listed
Listed(S) == {x : x \in S}

CanStep(text, e, next) ==
    IF next = {} THEN {}
    ELSE IF e.t = "alt" THEN CanAlts(text, e.alts, 1, next)
    ELSE IF e.t = "word"
    THEN Listed({pos \in 1..Len(text) :
                    WordAt(text, pos, e.w) /\ pos + Len(e.w) \in next})
    ELSE Listed({pos \in 1..Len(text) + 1 :
                    \E n \in e.min..Run(text, pos, e) : pos + n \in next})

CanTab(text, p, i, j, cont) ==
    IF i > j THEN <<>>
    ELSE IF i = j THEN <<CanStep(text, p[i], cont)>>
    ELSE LET right == CanTab(text, p, (i + j) \div 2 + 1, j, cont)
         IN  IF right[1] = {} THEN [k \in 1..j - i + 1 |-> {}]
             ELSE CanTab(text, p, i, (i + j) \div 2, right[1]) \o right

\* the positions from which pattern p, followed by cont, can match
CanStart(text, p, cont) ==
    IF Len(p) = 0 THEN cont ELSE CanTab(text, p, 1, Len(p), cont)[1]

CanAlts(text, alts, j, next) ==
    IF j > Len(alts) THEN {}
    ELSE Listed(CanStart(text, alts[j], next) \cup CanAlts(text, alts, j + 1, next))

\* the capture groups of a match: start and end position of each (0: unset)
NoCap == [s |-> 0, e |-> 0]
NoCaps == <<NoCap, NoCap, NoCap, NoCap>>

\* the span of a group in two adjacent parts of a match
JoinCap(a, b) == [s |-> IF a.s # 0 THEN a.s ELSE b.s, e |-> IF b.e # 0 THEN b.e ELSE a.e]

\* the groups of two adjacent parts of a match
JoinCaps(a, b) ==
    <<JoinCap(a[1], b[1]), JoinCap(a[2], b[2]), JoinCap(a[3], b[3]), JoinCap(a[4], b[4])>>

\* the match made of two adjacent parts
After(left, right) ==
    [end |-> right.end, caps |-> JoinCaps(left.caps, right.caps)]

OneCap(g, s, e) == [NoCaps EXCEPT ![g] = [s |-> s, e |-> e]]

\* no match: the pattern cannot match from the position
NoMatch == [end |-> 0, caps |-> NoCaps]

\* The match a backtracking matcher finds for the elements i..j of p from
\* pos, NoMatch if there is none: every element takes the first choice in its
\* order of preference (greedy: longest; lazy: shortest; alternatives: left
\* to right) that the rest of the pattern can follow.  tab is the table of
\* p and cont the positions from which what follows p can match.
RECURSIVE Walk(_, _, _, _, _, _, _)
Walk(text, p, i, j, pos, tab, cont) ==
    IF i > j THEN [end |-> pos, caps |-> NoCaps]
    ELSE IF pos \notin tab[i] THEN NoMatch
    ELSE IF i < j
    THEN LET left == Walk(text, p, i, (i + j) \div 2, pos, tab, cont)
         IN  After(left, Walk(text, p, (i + j) \div 2 + 1, j, left.end, tab, cont))
    ELSE LET next == IF i < Len(p) THEN tab[i + 1] ELSE cont
         IN  IF p[i].t = "alt"
             THEN LET a == MinOf({c \in 1..Len(p[i].alts) :
                                     pos \in CanStart(text, p[i].alts[c], next)})
                      q == p[i].alts[a]
                  IN  Walk(text, q, 1, Len(q), pos, CanTab(text, q, 1, Len(q), next), next)
             ELSE IF p[i].t = "word"
             THEN [end |-> pos + Len(p[i].w), caps |-> NoCaps]
             ELSE LET ns == Counts(text, p[i], pos, next)
                      n == IF p[i].lazy THEN MinOf(ns) ELSE MaxOf(ns)
                  IN  [end |-> pos + n,
                       caps |-> IF p[i].grp = 0 THEN NoCaps
                                ELSE OneCap(p[i].grp, pos, pos + n)]

CapText(text, c) == IF c.s = 0 THEN "" ELSE SubSeq(text, c.s, c.e - 1)

\* pattern.findall(text): the groups of every non-overlapping match, scanning
\* left to right; a match starts at the leftmost position from which the
\* pattern can match, and the scan resumes where the match ended (no
\* pattern of the program matches the empty string)
RECURSIVE Scan(_, _, _, _)
Scan(text, p, tab, from) ==
    LET starts == {s \in tab[1] : s >= from}
        m == Walk(text, p, 1, Len(p), MinOf(starts), tab, 1..Len(text) + 1)
    IN  IF starts = {} THEN <<>>
        ELSE <<<<CapText(text, m.caps[1]), CapText(text, m.caps[2]),
                   CapText(text, m.caps[3]), CapText(text, m.caps[4])>>>> \o Scan(text, p, tab, m.end)

FindAll(text, p) ==
    LET tab == CanTab(text, p, 1, Len(p), 1..Len(text) + 1)
    IN  IF tab[1] = {} THEN <<>> ELSE Scan(text, p, tab, 1)

\* findall of a pattern with one group returns the group's strings
FindAll1(text, p) == LET ms == FindAll(text, p) IN [i \in 1..Len(ms) |-> ms[i][1]]

-----------------------------------------------------------------------------
(* Cells of a row: a string, None, or a float.  A float is the decimal     *)
(* number m / 10^d.                                                        *)

None == [k |-> "none", s |-> "", m |-> 0, d |-> 0]
StrCell(s) == [k |-> "str", s |-> s, m |-> 0, d |-> 0]
NumCell(m, d) == [k |-> "num", s |-> "", m |-> m, d |-> d]

\* Python truthiness of a cell
Truthy(c) == (c.k = "str" /\ Len(c.s) > 0) \/ (c.k = "num" /\ c.m # 0)

\* a captured field, or None when the field has fewer than i matches
Nth(matches, i) == IF i <= Len(matches) THEN StrCell(matches[i]) ELSE None

-----------------------------------------------------------------------------
(* extract_mace_multi *)

MacePattern ==
    <<Word("P"), Opt({"."}), Word("O"), Opt({"."}), Star(Space),
      Word("NO"), Opt({"."}), Star(Space), Opt({":", "-"}), Star(Space),
      PlusG(Digit, 1), LazyAny,
      RepG(Digit, 1, 2, 2), PlusG(Space, 2), RepG(Letter, 3, 9, 2),
      PlusG(Space, 2), RepG(Digit, 4, 4, 2), LazyAny,
      Alt(<<<<Word("DDU"), Plus(Space), Word("Singapore"), Plus(Space)>>, <<>>>>),
      PlusG(Digit, 3), LazyAny,
      Alt(<<<<Word("TOTAL"), Plus(Space), Word("USD"),
              Star(Space), Opt({":", "-"}), Star(Space)>>,
            <<Lit("$")>>,
            <<>>>>),
      PlusG(Digit \cup {",", "."}, 4)>>

MaceKeys == <<"Invoice Date", "P.O. NO", "Sciex PO", "Total Invoice Value(USD)">>

MaceRow(po_no, date, sciex_po, total_usd) ==
    <<StrCell(date), StrCell(po_no), StrCell(sciex_po), StrCell(total_usd)>>

RECURSIVE MaceRows(_, _)
MaceRows(matches, i) ==
    IF i > Len(matches) THEN <<>>
    ELSE LET m == [g \in 1..4 |-> Strip(matches[i][g])] IN
         (IF \E g \in 1..4 : Len(m[g]) > 0
          THEN <<MaceRow(m[1], m[2], m[3], m[4])>> ELSE <<>>)
         \o MaceRows(matches, i + 1)

extract_mace_multi(text) == MaceRows(FindAll(text, MacePattern), 1)

-----------------------------------------------------------------------------
(* extract_novanta, extract_cronologic *)

Sep == <<Star(Space), Opt({":", "-"}), Star(Space)>>
Amount == <<Opt({"$"}), PlusG(Digit \cup {",", "."}, 1)>>

NovantaDate ==
    <<Word("Date")>> \o Sep
    \o <<RepG(Digit, 2, 2, 1), LitG("/", 1), RepG(Digit, 2, 2, 1), LitG("/", 1),
         RepG(Digit, 4, 4, 1)>>
NovantaInvoiceNo ==
    <<Word("Invoice"), Star(Space),
      Alt(<<<<Word("ID")>>, <<Word("No"), Opt({"."})>>>>)>>
    \o Sep \o <<PlusG(Digit, 1)>>
NovantaPoNo ==
    <<Word("ABSCIEX"), Star({"-"} \cup Space), Word("S"), Star(Space), PlusG(Digit, 1)>>
NovantaAmount ==
    <<Word("TOTAL"), Plus(Space),
      Alt(<<<<Word("AMOUNT"), Plus(Space), Word("DUE")>>, <<Word("USD")>>>>)>>
    \o Sep \o Amount

CronologicDate ==
    <<Word("Date")>> \o Sep
    \o <<RepG(Digit, 4, 4, 1), LitG("-", 1), RepG(Digit, 2, 2, 1), LitG("-", 1),
         RepG(Digit, 2, 2, 1)>>
CronologicInvoiceNo ==
    <<Word("Invoice"), Star(Space), Word("No"), Opt({"."})>> \o Sep \o <<PlusG(Digit, 1)>>
CronologicPoNo == <<Word("PO"), Opt({"-"} \cup Space), PlusG(Digit, 1)>>
CronologicAmount ==
    <<Word("Amount"), Star(Space),
      Alt(<<<<Word("for"), Star(Space), Word("Payment")>>, <<>>>>)>>
    \o Sep \o Amount

SingleKeys == <<"Invoice Date", "Invoice NO", "Sciex PO", "Total Invoice Value(USD)">>

\* the shortest of the four lists in place of the longest
Min4(a, b, c, d) == MinOf({a, b, c, d})

Max4(a, b, c, d) == MaxOf({a, b, c, d})

\* the rows built from the four lists of matches, one per index, and the
\* filter that drops a row without any truthy value
ZipRows(dates, invoice_nos, po_nos, amounts) ==
    LET data == [i \in 1..Max4(Len(dates), Len(invoice_nos), Len(po_nos), Len(amounts)) |->
                   <<Nth(dates, i), Nth(invoice_nos, i), Nth(po_nos, i), Nth(amounts, i)>>]
    IN  SelectSeq(data, LAMBDA row : \E c \in 1..4 : Truthy(row[c]))

extract_novanta(text) ==
    ZipRows(FindAll1(text, NovantaDate), FindAll1(text, NovantaInvoiceNo),
            FindAll1(text, NovantaPoNo), FindAll1(text, NovantaAmount))

extract_cronologic(text) ==
    ZipRows(FindAll1(text, CronologicDate), FindAll1(text, CronologicInvoiceNo),
            FindAll1(text, CronologicPoNo), FindAll1(text, CronologicAmount))

CustomerTypes == {"Mace", "Novanta", "Cronologic"}

EXTRACTORS(customer, text) ==
    CASE customer = "Mace" -> extract_mace_multi(text)
      [] customer = "Novanta" -> extract_novanta(text)
      [] customer = "Cronologic" -> extract_cronologic(text)

Keys(customer) == IF customer = "Mace" THEN MaceKeys ELSE SingleKeys

-----------------------------------------------------------------------------
(* Floats: parsing and formatting *)

RECURSIVE Pow10(_)
Pow10(d) == IF d = 0 THEN 1 ELSE 10 * Pow10(d - 1)

RECURSIVE Canon(_, _)
\* the same number without trailing zero decimals
Canon(m, d) == IF d > 0 /\ m % 10 = 0 THEN Canon(m \div 10, d - 1) ELSE NumCell(m, d)

DigVal(c) == IndexIn(DigitStr, c) - 1

RECURSIVE DigitsVal(_)
DigitsVal(s) ==
    IF Len(s) = 0 THEN 0
    ELSE 10 * DigitsVal(SubSeq(s, 1, Len(s) - 1)) + DigVal(Char(s, Len(s)))

Dots(s) == {i \in 1..Len(s) : Char(s, i) = "."}

\* float(s) succeeds: digits with at most one decimal point (the strings that
\* reach float() here hold digits and points, or read "None")
IsFloat(s) ==
    /\ \A i \in 1..Len(s) : Char(s, i) \in Digit \cup {"."}
    /\ Cardinality(Dots(s)) <= 1
    /\ \E i \in 1..Len(s) : Char(s, i) \in Digit

ParseFloat(s) ==
    LET digits == Remove(s, ".")
        d == IF Dots(s) = {} THEN 0 ELSE Len(s) - MinOf(Dots(s))
    IN  Canon(DigitsVal(digits), d)

RECURSIVE IntToStr(_)
IntToStr(n) ==
    IF n < 10 THEN Char(DigitStr, n + 1)
    ELSE IntToStr(n \div 10) \o Char(DigitStr, (n % 10) + 1)

RECURSIVE Group(_)
\* the thousands separators of the "," format option
Group(digits) ==
    IF Len(digits) <= 3 THEN digits
    ELSE Group(SubSeq(digits, 1, Len(digits) - 3)) \o ","
         \o SubSeq(digits, Len(digits) - 2, Len(digits))

\* m / 10^d lies, as a decimal number, exactly halfway between two hundredths
IsTie(m, d) == d > 2 /\ m % Pow10(d - 2) = 5 * Pow10(d - 3)

\* m / 10^d in hundredths, rounded; a number that is a tie as a decimal is
\* rounded the way its binary value lies, up or down
Hundredths(m, d, up) ==
    IF d <= 2 THEN m * Pow10(2 - d)
    ELSE LET q == m \div Pow10(d - 2)
             r == m % Pow10(d - 2)
         IN  IF r > 5 * Pow10(d - 3) \/ (IsTie(m, d) /\ up) THEN q + 1 ELSE q

\* f"{x:,.2f}"
Format2(m, d, up) ==
    LET h == Hundredths(m, d, up)
    IN  Group(IntToStr(h \div 100)) \o "." \o IntToStr((h % 100) \div 10)
        \o IntToStr(h % 10)

-----------------------------------------------------------------------------
(* The table (DataFrame): column names and rows of cells *)

NoTable == [columns |-> <<>>, rows |-> <<>>]

\* pd.DataFrame(results)
DataFrame(rows, keys) == [columns |-> keys, rows |-> rows]

ColIdx(t, name) == CHOOSE c \in 1..Len(t.columns) : t.columns[c] = name
HasCol(t, name) == \E c \in 1..Len(t.columns) : t.columns[c] = name
Col(t, name) == [i \in 1..Len(t.rows) |-> t.rows[i][ColIdx(t, name)]]

\* df[name] = vals
SetCol(t, name, vals) ==
    IF HasCol(t, name)
    THEN [t EXCEPT !.rows = [i \in 1..Len(t.rows) |->
                               [t.rows[i] EXCEPT ![ColIdx(t, name)] = vals[i]]]]
    ELSE [columns |-> Append(t.columns, name),
          rows |-> [i \in 1..Len(t.rows) |-> Append(t.rows[i], vals[i])]]

\* .astype(str)
AsStr(c) ==
    IF c.k = "none" THEN StrCell("None")
    ELSE IF c.k = "str" THEN c
    ELSE StrCell(IntToStr(c.m \div Pow10(c.d)) \o "."
                 \o (IF c.d = 0 THEN "0" ELSE SubSeq(IntToStr(Pow10(c.d) + (c.m % Pow10(c.d))), 2, c.d + 1)))

\* .astype(str).str.replace(",", "", regex=False)
StrNoComma(vals) == [i \in 1..Len(vals) |-> StrCell(Remove(AsStr(vals[i]).s, ","))]

\* .astype(float, errors="ignore"): the floats when every value converts,
\* otherwise the column as it was
AsFloatIgnore(vals) ==
    IF \A i \in 1..Len(vals) : IsFloat(vals[i].s)
    THEN [i \in 1..Len(vals) |-> ParseFloat(vals[i].s)]
    ELSE vals

\* lines 172 and 189
CleanNumeric(vals) == AsFloatIgnore(StrNoComma(vals))

IsNumeric(vals) == \A i \in 1..Len(vals) : vals[i].k = "num"

\* df[usd_col] * ex_rate, for a column of floats
Times(vals, rate) ==
    [i \in 1..Len(vals) |-> Canon(vals[i].m * rate.m, vals[i].d + rate.d)]

\* .map(lambda x: f"{x:,.2f}" if pd.notnull(x) else ""); ups are the values
\* whose decimal tie is rounded up
FormatCol(vals, ups) ==
    [i \in 1..Len(vals) |->
        IF vals[i].k = "num"
        THEN StrCell(Format2(vals[i].m, vals[i].d, vals[i] \in ups))
        ELSE IF vals[i].k = "none" THEN StrCell("") ELSE vals[i]]

Ties(vals) == {vals[i] : i \in {j \in 1..Len(vals) : vals[j].k = "num" /\ IsTie(vals[j].m, vals[j].d)}}

UsdCols(t) == SelectSeq(t.columns, LAMBDA c : Contains(LowerCase(c), "usd"))

\* line 179
NormalizeName(c) ==
    Remove(Remove(ReplaceChar(LowerCase(Strip(c)), " ", "_"), "."), ":")

NormalizeColumns(t) ==
    [t EXCEPT !.columns = [c \in 1..Len(t.columns) |-> NormalizeName(t.columns[c])]]

ExRateCol == "EX-RATE"
SgdCol == "Total Invoice Value(SGD)"
ExportCols == <<"Total Invoice Value(USD)", "Total Invoice Value(SGD)">>

\* lines 186-189
RECURSIVE ExportFrom(_, _)
ExportFrom(t, c) ==
    IF c > Len(ExportCols) THEN t
    ELSE ExportFrom(IF HasCol(t, ExportCols[c])
                    THEN SetCol(t, ExportCols[c], CleanNumeric(Col(t, ExportCols[c])))
                    ELSE t,
                    c + 1)

Export(t) == ExportFrom(t, 1)

-----------------------------------------------------------------------------
(* Inputs *)

MaxFiles == 3

PageA == "PO NO 1001 05 Jan 2024 DDU Singapore 9001 TOTAL USD 1,000.00"
PageB == "PO NO 1002 10 Feb 2024 DDU Singapore 9002 TOTAL USD 2,500.50"
\* a total that ends a sentence: the captured "950.00." is not a number
PageC == "PO NO 1003 11 Mar 2024 DDU Singapore 9003 TOTAL USD 950.00."

\* A PDF: the text of its pages and raises, the page at which the PDF
\* library raises (0: it does not; 1: already when the file is opened)
Pdfs ==
    {[pages |-> <<PageA, PageB>>, raises |-> 0],
     [pages |-> <<PageA, PageB>>, raises |-> 2],
     [pages |-> <<PageA>>, raises |-> 1],
     [pages |-> <<PageC>>, raises |-> 0]}

FileNames == <<"a.pdf", "b.pdf", "c.pdf", "d.pdf">>

\* 0 (the default) and 1.35
ExRates == {NumCell(0, 0), NumCell(135, 2)}

-----------------------------------------------------------------------------
(* extract_text_from_pdf_bytes *)

Raised(f) == f.raises \in 1..Len(f.pages)

RECURSIVE PagesText(_, _, _)
PagesText(pages, i, last) ==
    IF i > last THEN ""
    ELSE (IF Len(pages[i]) > 0 THEN pages[i] \o "\n" ELSE "")
         \o PagesText(pages, i + 1, last)

\* the text of the pages read before the library raised, if it did
extract_text_from_pdf_bytes(f) ==
    PagesText(f.pages, 1, IF Raised(f) THEN f.raises - 1 ELSE Len(f.pages))

\* lines 146-147: the rows the loop extracts from an uploaded PDF
ExtractedRows(customer, f) == EXTRACTORS(customer, extract_text_from_pdf_bytes(f))

\* the same for every customer type and every PDF, computed once
Extracted ==
    {<<c, f, ExtractedRows(c, f)>> : c \in CustomerTypes, f \in Pdfs}

RowsOf(customer, pages, raises) ==
    (CHOOSE e \in Extracted :
        e[1] = customer /\ e[2].pages = pages /\ e[2].raises = raises)[3]

-----------------------------------------------------------------------------
(* The page *)

\* the page as first loaded: the widgets' defaults, nothing run
Loaded ==
    /\ customer_type = "Mace"
    /\ uploaded_files = <<>>
    /\ ex_rate = NumCell(0, 0)
    /\ normalize_names = FALSE
    /\ show_logs = TRUE
    /\ pc = "idle" /\ idx = 0 /\ results = <<>> /\ logs = <<>>
    /\ calls = 0 /\ text_reads = 0 /\ pdf_errors = 0
    /\ message = "none" /\ notice = "none"
    /\ shown_logs = <<>> /\ df = NoTable /\ df_export = NoTable /\ downloads = FALSE

Init ==
    /\ Loaded
    /\ in_truth = <<>> /\ in_text = "" /\ out_rows = <<>> /\ xpc = "off"

\* a rerun of the script without the button: the page shows no result
Cleared ==
    /\ pc' = "idle" /\ idx' = 0 /\ results' = <<>> /\ logs' = <<>>
    /\ calls' = 0 /\ text_reads' = 0 /\ pdf_errors' = 0
    /\ message' = "none" /\ notice' = "none"
    /\ shown_logs' = <<>> /\ df' = NoTable /\ df_export' = NoTable
    /\ downloads' = FALSE

Resting == xpc = "off" /\ pc \in {"idle", "done", "crashed"}

SelectCustomer ==
    /\ Resting
    /\ \E c \in CustomerTypes \ {customer_type} : customer_type' = c
    /\ Cleared
    /\ UNCHANGED <<uploaded_files, ex_rate, normalize_names, show_logs, harnessVars>>

UploadFile ==
    /\ Resting
    /\ Len(uploaded_files) < MaxFiles
    /\ \E f \in Pdfs :
          uploaded_files' = Append(uploaded_files,
              [name |-> FileNames[Len(uploaded_files) + 1],
               pages |-> f.pages, raises |-> f.raises])
    /\ Cleared
    /\ UNCHANGED <<customer_type, ex_rate, normalize_names, show_logs, harnessVars>>

SetExRate ==
    /\ Resting
    /\ \E r \in ExRates \ {ex_rate} : ex_rate' = r
    /\ Cleared
    /\ UNCHANGED <<customer_type, uploaded_files, normalize_names, show_logs, harnessVars>>

ToggleNormalize ==
    /\ Resting
    /\ normalize_names' = ~normalize_names
    /\ Cleared
    /\ UNCHANGED <<customer_type, uploaded_files, ex_rate, show_logs, harnessVars>>

ToggleShowLogs ==
    /\ Resting
    /\ show_logs' = ~show_logs
    /\ Cleared
    /\ UNCHANGED <<customer_type, uploaded_files, ex_rate, normalize_names, harnessVars>>

\* the check with < in place of <=
RateInvalidStrict(rate) == rate.m < 0

\* line 134
RateInvalid(rate) == rate.m <= 0

\* "Process Files": lines 131-143
ClickProcess ==
    /\ Resting
    /\ idx' = 0 /\ results' = <<>> /\ logs' = <<>>
    /\ calls' = 0 /\ text_reads' = 0 /\ pdf_errors' = 0
    /\ notice' = "none" /\ shown_logs' = <<>>
    /\ df' = NoTable /\ df_export' = NoTable /\ downloads' = FALSE
    /\ IF Len(uploaded_files) = 0
       THEN message' = "upload_warning" /\ pc' = "done"
       ELSE IF RateInvalid(ex_rate)
       THEN message' = "rate_error" /\ pc' = "done"
       ELSE message' = "extracting" /\ pc' = "loop"
    /\ UNCHANGED <<widgetVars, harnessVars>>

LogEntry(kind, file_name, count) == [kind |-> kind, file |-> file_name, count |-> count]

\* the rows put in front of the list
ExtendFront(list, rows) == rows \o list

\* results.extend(extracted_rows)
Extend(list, rows) == list \o rows

\* one pass of the loop: lines 144-156.  Nothing in the try block raises:
\* extract_text_from_pdf_bytes catches every exception itself, so the except
\* branch of line 154 is never taken.
ProcessFile ==
    /\ xpc = "off" /\ pc = "loop" /\ idx < Len(uploaded_files)
    /\ LET f == uploaded_files[idx + 1]
           extracted_rows == RowsOf(customer_type, f.pages, f.raises)
       IN  /\ text_reads' = text_reads + 1
           /\ pdf_errors' = pdf_errors + (IF Raised(f) THEN 1 ELSE 0)
           /\ calls' = calls + 1
           /\ IF Len(extracted_rows) = 0
              THEN /\ logs' = Append(logs, LogEntry("warning", f.name, 0))
                   /\ results' = results
              ELSE /\ results' = Extend(results, extracted_rows)
                   /\ logs' = Append(logs, LogEntry("success", f.name, Len(extracted_rows)))
    /\ idx' = idx + 1
    /\ UNCHANGED <<pc, message, notice, shown_logs, df, df_export, downloads,
                   widgetVars, harnessVars>>

\* lines 172-176 on a table with a USD column whose cleaned values are floats
Converted(t, usd_col, usd, rate, ups) ==
    LET t1 == SetCol(t, usd_col, usd)
        t2 == SetCol(t1, ExRateCol, [i \in 1..Len(usd) |-> rate])
        t3 == SetCol(t2, SgdCol, Times(usd, rate))
        t4 == SetCol(t3, usd_col, FormatCol(usd, ups))
    IN  SetCol(t4, SgdCol, FormatCol(Times(usd, rate), ups))

\* lines 178-179
Renamed(t, normalize) == IF normalize THEN NormalizeColumns(t) ELSE t

\* after the loop: lines 158-216
Finish ==
    /\ xpc = "off" /\ pc = "loop" /\ idx = Len(uploaded_files)
    /\ message' = "complete"
    /\ shown_logs' = IF show_logs THEN logs ELSE <<>>
    /\ IF Len(results) = 0
       THEN /\ notice' = "no_data" /\ pc' = "done"
            /\ df' = NoTable /\ df_export' = NoTable /\ downloads' = FALSE
       ELSE LET t == DataFrame(results, Keys(customer_type))
                usd_cols == UsdCols(t)
                usd == CleanNumeric(Col(t, usd_cols[1]))
            IN  IF Len(usd_cols) > 0 /\ ~IsNumeric(usd)
                THEN \* line 174: a column of strings times a float: TypeError
                     /\ notice' = "exception" /\ pc' = "crashed"
                     /\ df' = NoTable /\ df_export' = NoTable /\ downloads' = FALSE
                ELSE \E ups \in SUBSET (Ties(usd) \cup Ties(Times(usd, ex_rate))) :
                     LET shown == Renamed(IF Len(usd_cols) > 0
                                          THEN Converted(t, usd_cols[1], usd, ex_rate, ups)
                                          ELSE t,
                                          normalize_names)
                     IN  /\ df' = shown
                         /\ df_export' = Export(shown)
                         /\ downloads' = TRUE
                         /\ notice' = "none" /\ pc' = "done"
    /\ UNCHANGED <<idx, results, logs, calls, text_reads, pdf_errors,
                   widgetVars, harnessVars>>

Next ==
    \/ SelectCustomer \/ UploadFile \/ SetExRate \/ ToggleNormalize \/ ToggleShowLogs
    \/ ClickProcess \/ ProcessFile \/ Finish

Spec == Init /\ [][Next]_vars

-----------------------------------------------------------------------------
(* Properties of a run of the page *)

\* the rows of the first n uploaded files, file after file
RECURSIVE RowsUpTo(_)
RowsUpTo(n) ==
    IF n = 0 THEN <<>>
    ELSE RowsUpTo(n - 1)
         \o RowsOf(customer_type, uploaded_files[n].pages, uploaded_files[n].raises)

\* the same without the rows of file k
RECURSIVE RowsExcept(_, _)
RowsExcept(n, k) ==
    IF n = 0 THEN <<>>
    ELSE RowsExcept(n - 1, k)
         \o (IF n = k THEN <<>>
             ELSE RowsOf(customer_type, uploaded_files[n].pages, uploaded_files[n].raises))

\* for every row of RowsUpTo(n), the name of the file it comes from
RECURSIVE SourcesUpTo(_)
SourcesUpTo(n) ==
    IF n = 0 THEN <<>>
    ELSE SourcesUpTo(n - 1)
         \o [i \in 1..Len(RowsOf(customer_type, uploaded_files[n].pages,
                                  uploaded_files[n].raises)) |-> uploaded_files[n].name]

\* the column of t that name names, normalized or not
Named(t, name) ==
    {c \in 1..Len(t.columns) : NormalizeName(t.columns[c]) = NormalizeName(name)}

UsdCol == "Total Invoice Value(USD)"

\* the parsed USD total of record i, None when it does not parse
ParsedUsd(i) ==
    LET v == CleanNumeric(<<results[i][4]>>)[1] IN IF v.k = "num" THEN v ELSE None

\* C1: a run invoked with no uploaded file or with a rate <= 0 is blocked
\* before any file is touched: no text is read, no extractor is called, no
\* log entry is recorded, there are no rows and no download.
C1_Blocked ==
    (pc # "idle" /\ (Len(uploaded_files) = 0 \/ ex_rate.m <= 0))
        => /\ pc = "done" /\ message \in {"upload_warning", "rate_error"}
           /\ text_reads = 0 /\ calls = 0 /\ pdf_errors = 0
           /\ logs = <<>> /\ shown_logs = <<>> /\ results = <<>>
           /\ df = NoTable /\ df_export = NoTable /\ ~downloads

\* a run with two uploaded files blocked for its rate
C1_Witness ==
    pc = "done" /\ message = "rate_error" /\ Len(uploaded_files) >= 2 /\ ex_rate.m = 0

\* C2: when the text extraction raises for exactly one file of the batch,
\* every file is still processed, the log has exactly one error entry, the
\* failing file's, and the aggregated records are those of the other files.
C2_Isolation ==
    (message = "complete"
     /\ Cardinality({k \in 1..Len(uploaded_files) : Raised(uploaded_files[k])}) = 1)
        => LET k == CHOOSE j \in 1..Len(uploaded_files) : Raised(uploaded_files[j])
           IN  /\ Len(logs) = Len(uploaded_files)
               /\ \A i \in 1..Len(logs) : (logs[i].kind = "error") <=> (i = k)
               /\ logs[k].file = uploaded_files[k].name
               /\ results = RowsExcept(Len(uploaded_files), k)

\* C3: after a run that passed validation the aggregated records are the
\* concatenation, in upload order, of each file's records in the order the
\* extractor returned them, and the table shows them in that order.
C3_Order ==
    message = "complete"
        => /\ results = RowsUpTo(Len(uploaded_files))
           /\ downloads
                => /\ Len(df.rows) = Len(results)
                   /\ \A i \in 1..Len(results) :
                         /\ df.rows[i][1] = results[i][1]
                         /\ df.rows[i][2] = results[i][2]
                         /\ df.rows[i][3] = results[i][3]

\* a finished run of three files, the second of which yields nothing
C3_Witness ==
    /\ message = "complete" /\ downloads /\ Len(uploaded_files) = 3
    /\ logs[1].kind = "success" /\ logs[2].kind = "warning" /\ logs[3].kind = "success"
    /\ Len(results) >= 3

\* C4: a run that passed validation completes: one log entry per file, then
\* a table with downloads when there are records and the "no data" notice
\* when there are none; no run ends otherwise.
C4_Completes ==
    /\ pc # "crashed"
    /\ (pc = "done" /\ message = "complete")
          => /\ Len(logs) = Len(uploaded_files)
             /\ IF Len(results) > 0
                THEN downloads /\ df # NoTable /\ notice = "none"
                ELSE ~downloads /\ notice = "no_data"

\* C5: the exported USD and SGD columns hold numbers, with the normalization
\* toggle off and on.
C5_ExportNumeric ==
    downloads
        => \A name \in {UsdCol, SgdCol} : \A c \in Named(df_export, name) :
              \A i \in 1..Len(df_export.rows) : df_export.rows[i][c].k = "num"

\* C6: a total that does not parse does not fail the batch: the run ends
\* with the table, the record keeps its text, and every record whose total
\* parses has its SGD total.
C6_NonFatal ==
    (message = "complete" /\ Len(results) > 0)
        => /\ pc = "done" /\ downloads
           /\ Len(df.rows) = Len(results)
           /\ \A i \in 1..Len(results) :
                 IF ParsedUsd(i) = None
                 THEN \A c \in Named(df, UsdCol) : df.rows[i][c] = results[i][4]
                 ELSE \A c \in Named(df, SgdCol) : Len(df.rows[i][c].s) > 0

\* C9: every row of the table holds the name of the file it was extracted
\* from.
C9_Tagged ==
    downloads
        => \E c \in 1..Len(df.columns) : \A i \in 1..Len(df.rows) :
              df.rows[i][c] = StrCell(SourcesUpTo(Len(uploaded_files))[i])

\* C10: for every row whose USD total parsed, the exported USD value is the
\* parsed value and the exported SGD value is exactly that value times the
\* rate.
C10_Exact ==
    downloads
        => \A i \in 1..Len(results) :
              ParsedUsd(i) # None
                 => /\ \A c \in Named(df_export, UsdCol) :
                         df_export.rows[i][c] = ParsedUsd(i)
                    /\ \A c \in Named(df_export, SgdCol) :
                         df_export.rows[i][c] = Times(<<ParsedUsd(i)>>, ex_rate)[1]

-----------------------------------------------------------------------------
(* extract_mace_multi on texts made of well-formed invoice blocks *)

MaxBlocks == 2

\* the fields of the i-th block of a text
BlockFields ==
    <<[po |-> "1001", date |-> "05 Jan 2024", ref |-> "9001", total |-> "1,000.00"],
      [po |-> "1002", date |-> "10 Feb 2024", ref |-> "9002", total |-> "2,500.50"],
      [po |-> "1003", date |-> "11 Mar 2024", ref |-> "9003", total |-> "950.00"]>>

\* what stands between two fields of a block: a space, or a quantity
Fillers == {" ", " Qty 3 "}

\* the fillers after the PO number, after the date and after the reference
Gaps == [1..3 -> Fillers]

RECURSIVE SeqsUpTo(_, _)
\* the sequences over S of length at most n
SeqsUpTo(S, n) ==
    IF n = 0 THEN {<<>>}
    ELSE SeqsUpTo(S, n - 1)
         \cup {Append(q, x) : q \in {r \in SeqsUpTo(S, n - 1) : Len(r) = n - 1}, x \in S}

BlockText(i, g) ==
    "P.O. NO " \o BlockFields[i].po \o g[1] \o BlockFields[i].date \o g[2]
    \o "DDU Singapore " \o BlockFields[i].ref \o g[3]
    \o "TOTAL USD " \o BlockFields[i].total \o "\nThank you\n"

RECURSIVE BlocksText(_, _)
BlocksText(gs, i) ==
    IF i > Len(gs) THEN "" ELSE BlockText(i, gs[i]) \o BlocksText(gs, i + 1)

MaceInit ==
    /\ Loaded
    /\ \E gs \in SeqsUpTo(Gaps, MaxBlocks) :
          /\ in_truth = gs
          /\ in_text = BlocksText(gs, 1)
    /\ out_rows = <<>> /\ xpc = "ready"

ExtractMace ==
    /\ xpc = "ready"
    /\ out_rows' = extract_mace_multi(in_text)
    /\ xpc' = "done"
    /\ UNCHANGED <<widgetVars, runVars, in_truth, in_text>>

MaceNext == ExtractMace

MaceSpec == MaceInit /\ [][MaceNext]_vars

\* C8: a text of k well-formed blocks yields exactly k records in document
\* order, the i-th with the PO number, date, reference and total of the i-th
\* block, whatever stands between the fields.
C8_Records ==
    xpc = "done"
        => out_rows = [i \in 1..Len(in_truth) |->
                         MaceRow(BlockFields[i].po, BlockFields[i].date,
                                 BlockFields[i].ref, BlockFields[i].total)]

-----------------------------------------------------------------------------
(* extract_novanta and extract_cronologic on texts made of field lines *)

MaxFrags == 3

\* the kinds of line of a text: one per field, and one that holds no field
FragKinds == {"date", "invoice", "po", "amount", "other"}

Digit1(j) == Char(DigitStr, j + 1)

\* the value of the field in the j-th line of a text
FieldValue(customer, kind, j) ==
    CASE kind = "date" -> IF customer = "Novanta" THEN "0" \o Digit1(j) \o "/01/2024"
                          ELSE "2024-01-0" \o Digit1(j)
      [] kind = "invoice" -> "7" \o Digit1(j)
      [] kind = "po" -> "4" \o Digit1(j)
      [] kind = "amount" -> Digit1(j) \o "00.00"

\* the j-th line of a text, as the customer's invoices write the field
FragText(customer, kind, j) ==
    CASE kind = "other" -> "Thank you\n"
      [] kind = "date" -> "Date: " \o FieldValue(customer, kind, j) \o "\n"
      [] kind = "invoice" -> "Invoice No: " \o FieldValue(customer, kind, j) \o "\n"
      [] kind = "po" -> (IF customer = "Novanta" THEN "ABSCIEX-S " ELSE "PO-")
                        \o FieldValue(customer, kind, j) \o "\n"
      [] kind = "amount" -> (IF customer = "Novanta" THEN "TOTAL AMOUNT DUE: $"
                             ELSE "Amount for Payment: $")
                            \o FieldValue(customer, kind, j) \o "\n"

RECURSIVE FragsText(_, _, _)
FragsText(customer, kinds, j) ==
    IF j > Len(kinds) THEN ""
    ELSE FragText(customer, kinds[j], j) \o FragsText(customer, kinds, j + 1)

SingleInit ==
    /\ Loaded
    /\ \E c \in {"Novanta", "Cronologic"} : \E kinds \in SeqsUpTo(FragKinds, MaxFrags) :
          /\ in_truth = [customer |-> c, kinds |-> kinds]
          /\ in_text = FragsText(c, kinds, 1)
    /\ out_rows = <<>> /\ xpc = "ready"

ExtractSingle ==
    /\ xpc = "ready"
    /\ out_rows' = EXTRACTORS(in_truth.customer, in_text)
    /\ xpc' = "done"
    /\ UNCHANGED <<widgetVars, runVars, in_truth, in_text>>

SingleNext == ExtractSingle

SingleSpec == SingleInit /\ [][SingleNext]_vars

\* the values of a field in the text, in the order of its lines
FieldValues(kind) ==
    LET at == SelectSeq([j \in 1..Len(in_truth.kinds) |-> j],
                        LAMBDA j : in_truth.kinds[j] = kind)
    IN  [i \in 1..Len(at) |-> FieldValue(in_truth.customer, kind, at[i])]

\* the i-th value of a field, None when the text has fewer
FieldAt(kind, i) ==
    IF i <= Len(FieldValues(kind)) THEN StrCell(FieldValues(kind)[i]) ELSE None

FieldCount(kind) == Cardinality({j \in 1..Len(in_truth.kinds) : in_truth.kinds[j] = kind})

\* the number of values of the field the text holds most of
MostValues ==
    CHOOSE n \in 0..Len(in_truth.kinds) :
        /\ \A kind \in FragKinds \ {"other"} : FieldCount(kind) <= n
        /\ n = 0 \/ \E kind \in FragKinds \ {"other"} : FieldCount(kind) = n

\* C7 as amended: the single-shot extractors yield as many records as the
\* field found most often has matches (none when no field matches), the i-th
\* record holding the i-th match of every field, None for a field with fewer
\* than i matches.
C7_OnePerMatch ==
    xpc = "done"
        => out_rows = [i \in 1..MostValues |->
                         <<FieldAt("date", i), FieldAt("invoice", i),
                           FieldAt("po", i), FieldAt("amount", i)>>]

\* a text with two dates and one amount: two records, the second without
\* an amount
C7_Witness ==
    /\ xpc = "done" /\ Len(out_rows) = 2
    /\ out_rows[2][1] # None /\ out_rows[1][4] # None /\ out_rows[2][4] = None

\* C7: the single-shot extractors yield exactly one record for every text,
\* each field being its first match or None.
C7_ExactlyOne ==
    xpc = "done"
        => /\ Len(out_rows) = 1
           /\ out_rows[1] = <<FieldAt("date", 1), FieldAt("invoice", 1),
                               FieldAt("po", 1), FieldAt("amount", 1)>>
====
